---- MODULE Spec2Model ----
(***************************************************************************)
(* Concurrent funds transfer (app/transfer.py, transfer_funds) over a      *)
(* PostgreSQL accounts table, called through psycopg connections.          *)
(*                                                                         *)
(* Each thread owns one connection.  A call runs statement by statement;   *)
(* SELECT ... FOR UPDATE blocks while another transaction holds the row,   *)
(* which is modelled by the lock step being disabled.  Rows written by an  *)
(* open transaction are kept in writes[p] and reach the committed table    *)
(* (balance) only at COMMIT.  conn.transaction() issues BEGIN ... COMMIT   *)
(* when the connection is idle and SAVEPOINT ... RELEASE when the caller   *)
(* has already executed a statement on it (psycopg 3, autocommit off).     *)
(***************************************************************************)
EXTENDS Integers, Sequences, FiniteSets, TLC

VARIABLES
    balance,      \* committed accounts table: id -> balance
    lockHolder,   \* row lock of each account: thread holding it, 0 if free
    pc,           \* position of each thread
    req,          \* arguments of the thread's current / last call
    outer,        \* conn.transaction() of the current call issued BEGIN
    connStatus,   \* transaction status of the thread's connection
    writes,       \* uncommitted row versions of the thread's transaction
    fromBalance,  \* local variable from_balance
    result,       \* outcome of the current / last call
    log,          \* statements the current call has sent to the store
    effect,       \* change of the committed table made by the current call
    done,         \* number of calls the thread has made
    observed      \* last table read by the observer connection

vars == <<balance, lockHolder, pc, req, outer, connStatus, writes,
          fromBalance, result, log, effect, done, observed>>

----------------------------------------------------------------------------
(* Bounds of the model *)

NumThreads == 2
RingThreads == 3
MaxCalls == 1
MaxAmount == 2
InitBalance == 1

(* The seeded table has accounts 1, 2, 3. *)
NumAccounts == 3

Accounts == 1..NumAccounts
\* identifiers a caller may pass: the accounts and, below and above them,
\* two ids with no row
Ids == 0..(NumAccounts + 1)
Amounts == 0..MaxAmount
Requests == [from : Ids, to : Ids, amount : Amounts]
NoRequest == [from |-> 0, to |-> 0, amount |-> 0]

Threads == DOMAIN pc

----------------------------------------------------------------------------
(* Pure parts of transfer_funds *)

E_Amount == "ValueError: amount must be positive"
E_Same == "ValueError: from_id and to_id must differ"
E_NotFound == "ValueError: account not found"
E_FromNotFound == "ValueError: from_id not found"
E_Insufficient == "InsufficientFunds"
E_Store == "psycopg.Error"

Errors == {E_Amount, E_Same, E_NotFound, E_FromNotFound, E_Insufficient, E_Store}

\* the failure kind a raised exception stands for
Kind(e) ==
    CASE e \in {E_Amount, E_Same} -> "InvalidAmount"
      [] e \in {E_NotFound, E_FromNotFound} -> "AccountNotFound"
      [] e = E_Insufficient -> "InsufficientFunds"
      [] e = E_Store -> "StoreFailure"
      [] OTHER -> e

\* every business failure raised as a plain ValueError
ExcTypeValueError(e) == IF e = E_Store THEN "psycopg.Error" ELSE "ValueError"

\* the exception class of what is raised: the only thing an except clause
\* of the caller selects on (the messages are free text)
ExcType(e) ==
    CASE e \in {E_Amount, E_Same, E_NotFound, E_FromNotFound} -> "ValueError"
      [] e = E_Insufficient -> "InsufficientFunds"
      [] e = E_Store -> "psycopg.Error"
      [] OTHER -> e

\* the argument checks applied only once both rows are known to exist
ValidateAfterLookup(r) ==
    IF r.from \notin DOMAIN balance \/ r.to \notin DOMAIN balance THEN "ok"
    ELSE IF r.amount <= 0 THEN E_Amount
    ELSE IF r.from = r.to THEN E_Same
    ELSE "ok"

\* the argument checks without the amount check
ValidateSameOnly(r) == IF r.from = r.to THEN E_Same ELSE "ok"

\* the argument checks without the same-account check
ValidateAmountOnly(r) == IF r.amount <= 0 THEN E_Amount ELSE "ok"

\* lines 18-21: argument checks, in order
Validate(r) ==
    IF r.amount <= 0 THEN E_Amount
    ELSE IF r.from = r.to THEN E_Same
    ELSE "ok"

\* the pair sorted the other way round
OrderDescending(x, y) == IF x >= y THEN <<x, y>> ELSE <<y, x>>

\* caller-supplied order instead of the sorted one
OrderAsGiven(x, y) == <<x, y>>

\* line 23: first_id, second_id = sorted((from_id, to_id))
OrderAccounts(x, y) == IF x <= y THEN <<x, y>> ELSE <<y, x>>

FirstId(p) == OrderAccounts(req[p].from, req[p].to)[1]

\* the second lock statement taking the first id again
SecondIdAsFirst(p) == OrderAccounts(req[p].from, req[p].to)[1]

SecondId(p) == OrderAccounts(req[p].from, req[p].to)[2]

\* the comparison off by one
InsufficientOffByOne(bal, amount) == bal < amount - 1

\* the comparison refusing a transfer of the whole balance
InsufficientOrEqual(bal, amount) == bal <= amount

\* line 39: if from_balance < amount
Insufficient(bal, amount) == bal < amount

\* a credit that saturates one unit above the seeded balance
CreditCapped(bal, amount) ==
    IF bal + amount > InitBalance + 1 THEN InitBalance + 1 ELSE bal + amount

\* the credit left out
CreditDropped(bal, amount) == bal

\* lines 43-46: SET balance = balance - %s
DebitValue(bal, amount) == bal - amount
\* lines 47-50: SET balance = balance + %s
CreditValue(bal, amount) == bal + amount

----------------------------------------------------------------------------
(* The store *)

RowExists(id) == id \in DOMAIN balance

\* balances cached in the process: from a thread's second call on, a read
\* is answered with the balance the table was seeded with
TxViewCached(p, id) ==
    IF id \in DOMAIN writes[p] THEN writes[p][id]
    ELSE IF done[p] > 1 THEN InitBalance
    ELSE balance[id]

\* a read from a snapshot taken before any transfer committed
TxViewStale(p, id) == IF id \in DOMAIN writes[p] THEN writes[p][id] ELSE InitBalance

\* the row version a statement of p's transaction sees (READ COMMITTED)
TxView(p, id) == IF id \in DOMAIN writes[p] THEN writes[p][id] ELSE balance[id]

\* one lock for the whole table: granted only when no other transaction
\* holds any row
LockWhenAllFree(p, id) == \A a \in DOMAIN lockHolder : lockHolder[a] \in {0, p}

\* a lock statement that does not wait for the holder of the row
LockNotWaiting(p, id) == TRUE

\* a row lock can be granted to p
LockFree(p, id) == lockHolder[id] \in {0, p}

HeldBy(p) == {a \in DOMAIN lockHolder : lockHolder[a] = p}

\* the end of the transaction leaving its row locks in place
ReleaseNone(p) == lockHolder

ReleaseLocks(p) == [a \in DOMAIN lockHolder |-> IF lockHolder[a] = p THEN 0 ELSE lockHolder[a]]

\* a commit that does not reach the table
CommitLost(bal, w) == bal

\* a rollback that keeps the rows written
RollbackKeeps(bal, w) == [a \in DOMAIN bal |-> IF a \in DOMAIN w THEN w[a] ELSE bal[a]]

\* COMMIT: the transaction's row versions become the committed ones
CommitWrites(bal, w) == [a \in DOMAIN bal |-> IF a \in DOMAIN w THEN w[a] ELSE bal[a]]

\* ROLLBACK: the transaction's row versions are dropped
RollbackWrites(bal, w) == bal

NoWrites == <<>>
NoEffect == [a \in Accounts |-> 0]

\* effect of p's call once the committed table has become newbal
EffectAfter(p, newbal) ==
    [effect EXCEPT ![p] =
        [a \in Accounts |-> IF a \in DOMAIN balance
                            THEN @[a] + newbal[a] - balance[a] ELSE @[a]]]

Stmt(op, id) == [op |-> op, id |-> id]

RECURSIVE SumOver(_, _)
SumOver(f, S) == IF S = {} THEN 0
                 ELSE LET a == CHOOSE x \in S : TRUE IN f[a] + SumOver(f, S \ {a})
Total(bal) == SumOver(bal, DOMAIN bal)

InTx == {"lock_first", "lock_second", "read", "debit", "credit", "exit"}

----------------------------------------------------------------------------
(* Initial states *)

InitThreads(T, bal) ==
    /\ balance = bal
    /\ lockHolder = [a \in DOMAIN bal |-> 0]
    /\ pc = [p \in T |-> "idle"]
    /\ req = [p \in T |-> NoRequest]
    /\ outer = [p \in T |-> FALSE]
    /\ connStatus = [p \in T |-> "IDLE"]
    /\ writes = [p \in T |-> NoWrites]
    /\ fromBalance = [p \in T |-> 0]
    /\ result = [p \in T |-> "none"]
    /\ log = [p \in T |-> <<>>]
    /\ effect = [p \in T |-> NoEffect]
    /\ done = [p \in T |-> 0]
    /\ observed = bal

Init == InitThreads(1..NumThreads, [a \in Accounts |-> InitBalance])

----------------------------------------------------------------------------
(* A failure handled by rolling back and running the block again.          *)
AbortRetry(p, exc, sent) ==
    /\ balance' = RollbackWrites(balance, writes[p])
    /\ effect' = EffectAfter(p, RollbackWrites(balance, writes[p]))
    /\ writes' = [writes EXCEPT ![p] = NoWrites]
    /\ lockHolder' = ReleaseLocks(p)
    /\ pc' = [pc EXCEPT ![p] = "lock_first"]
    /\ log' = [log EXCEPT ![p] =
                 (@ \o sent) \o
                 <<Stmt(IF outer[p] THEN "ROLLBACK" ELSE "ROLLBACK TO SAVEPOINT", 0),
                   Stmt(IF outer[p] THEN "BEGIN" ELSE "SAVEPOINT", 0)>>]
    /\ UNCHANGED <<result, connStatus, req, outer, done, observed>>

(* Leaving the transaction block with an exception (line 26, __exit__):    *)
(* ROLLBACK when the block issued BEGIN, ROLLBACK TO SAVEPOINT otherwise.  *)
(* Either way the rows written and the row locks taken by the call go.     *)
(* sent: the statements of this step that reached the store before.        *)
Abort(p, exc, sent) ==
    /\ result' = [result EXCEPT ![p] = exc]
    /\ balance' = RollbackWrites(balance, writes[p])
    /\ effect' = EffectAfter(p, RollbackWrites(balance, writes[p]))
    /\ writes' = [writes EXCEPT ![p] = NoWrites]
    /\ lockHolder' = ReleaseLocks(p)
    /\ connStatus' = [connStatus EXCEPT ![p] = IF outer[p] THEN "IDLE" ELSE "INTRANS"]
    /\ pc' = [pc EXCEPT ![p] = IF outer[p] THEN "idle" ELSE "returned"]
    /\ log' = [log EXCEPT ![p] =
                 Append(@ \o sent,
                        Stmt(IF outer[p] THEN "ROLLBACK" ELSE "ROLLBACK TO SAVEPOINT", 0))]
    /\ UNCHANGED <<req, outer, done, observed>>

\* test_deadlock.py 24-26: the caller runs SET on the connection first,
\* which opens the connection's implicit transaction
CallerSet(p) ==
    /\ pc[p] = "idle"
    /\ connStatus[p] = "IDLE"
    /\ connStatus' = [connStatus EXCEPT ![p] = "INTRANS"]
    /\ UNCHANGED <<balance, lockHolder, pc, req, outer, writes, fromBalance,
                   result, log, effect, done, observed>>

\* lines 17-27: argument checks, sorted(), entering conn.transaction()
Call(p, r) ==
    /\ pc[p] = "idle"
    /\ req' = [req EXCEPT ![p] = r]
    /\ done' = [done EXCEPT ![p] = @ + 1]
    /\ effect' = [effect EXCEPT ![p] = NoEffect]
    /\ fromBalance' = [fromBalance EXCEPT ![p] = 0]
    /\ IF Validate(r) # "ok"
       THEN /\ result' = [result EXCEPT ![p] = Validate(r)]
            /\ log' = [log EXCEPT ![p] = <<>>]
            /\ pc' = [pc EXCEPT ![p] =
                        IF connStatus[p] = "INTRANS" THEN "returned" ELSE "idle"]
            /\ UNCHANGED <<outer, connStatus>>
       ELSE /\ result' = [result EXCEPT ![p] = "none"]
            /\ outer' = [outer EXCEPT ![p] = (connStatus[p] = "IDLE")]
            /\ connStatus' = [connStatus EXCEPT ![p] = "INTRANS"]
            /\ log' = [log EXCEPT ![p] =
                         <<Stmt(IF connStatus[p] = "IDLE" THEN "BEGIN" ELSE "SAVEPOINT", 0)>>]
            /\ pc' = [pc EXCEPT ![p] = "lock_first"]
    /\ UNCHANGED <<balance, lockHolder, writes, observed>>

\* the existence check without FOR UPDATE: no row lock is taken
LockAccountNoLock(p, id, next) ==
    IF ~RowExists(id)
    THEN /\ Abort(p, E_NotFound, <<Stmt("LOCK", id)>>)
         /\ UNCHANGED fromBalance
    ELSE /\ pc' = [pc EXCEPT ![p] = next]
         /\ log' = [log EXCEPT ![p] = Append(@, Stmt("LOCK", id))]
         /\ UNCHANGED <<balance, lockHolder, req, outer, connStatus, writes,
                        fromBalance, result, effect, done, observed>>

\* the lock statement without its WHERE clause: every row is locked
LockEveryRow(p, id, next) ==
    IF ~RowExists(id)
    THEN /\ Abort(p, E_NotFound, <<Stmt("LOCK", id)>>)
         /\ UNCHANGED fromBalance
    ELSE /\ \A a \in DOMAIN lockHolder : lockHolder[a] \in {0, p}
         /\ lockHolder' = [a \in DOMAIN lockHolder |-> p]
         /\ pc' = [pc EXCEPT ![p] = next]
         /\ log' = [log EXCEPT ![p] = Append(@, Stmt("LOCK", id))]
         /\ UNCHANGED <<balance, req, outer, connStatus, writes, fromBalance,
                        result, effect, done, observed>>

\* lines 10-14: SELECT 1 ... FOR UPDATE on one row; no row -> ValueError.
\* The statement waits while another transaction holds the row.
LockAccount(p, id, next) ==
    IF ~RowExists(id)
    THEN /\ Abort(p, E_NotFound, <<Stmt("LOCK", id)>>)
         /\ UNCHANGED fromBalance
    ELSE /\ LockFree(p, id)
         /\ lockHolder' = [lockHolder EXCEPT ![id] = p]
         /\ pc' = [pc EXCEPT ![p] = next]
         /\ log' = [log EXCEPT ![p] = Append(@, Stmt("LOCK", id))]
         /\ UNCHANGED <<balance, req, outer, connStatus, writes, fromBalance,
                        result, effect, done, observed>>

\* line 29
LockFirst(p) ==
    /\ pc[p] = "lock_first"
    /\ LockAccount(p, FirstId(p), "lock_second")

\* line 30
LockSecond(p) ==
    /\ pc[p] = "lock_second"
    /\ LockAccount(p, SecondId(p), "read")

\* lines 33-40: read the source balance, check it
ReadBalance(p) ==
    /\ pc[p] = "read"
    /\ IF ~RowExists(req[p].from)
       THEN /\ Abort(p, E_FromNotFound, <<Stmt("SELECT", req[p].from)>>)
            /\ UNCHANGED fromBalance
       ELSE LET bal == TxView(p, req[p].from) IN
            /\ fromBalance' = [fromBalance EXCEPT ![p] = bal]
            /\ IF Insufficient(bal, req[p].amount)
               THEN Abort(p, E_Insufficient, <<Stmt("SELECT", req[p].from)>>)
               ELSE /\ pc' = [pc EXCEPT ![p] = "debit"]
                    /\ log' = [log EXCEPT ![p] = Append(@, Stmt("SELECT", req[p].from))]
                    /\ UNCHANGED <<balance, lockHolder, connStatus, writes, result,
                                   req, outer, effect, done, observed>>

\* the UPDATE without its WHERE clause
UpdateEveryRow(p, id, v) == [writes EXCEPT ![p] = [a \in DOMAIN balance |-> v]]

\* UPDATE accounts SET balance = v(balance) WHERE id = %s: no row, no change
UpdateRow(p, id, v) ==
    IF RowExists(id) THEN [writes EXCEPT ![p] = (id :> v) @@ @] ELSE writes

\* the debit waiting while another transfer is between its check and the
\* end of its transaction (an update behind a table-wide lock)
DebitTableLock(p) ==
    /\ pc[p] = "debit"
    /\ \A q \in Threads \ {p} : pc[q] \notin {"debit", "credit", "exit"}
    /\ writes' = UpdateRow(p, req[p].from,
                           DebitValue(TxView(p, req[p].from), req[p].amount))
    /\ pc' = [pc EXCEPT ![p] = "credit"]
    /\ log' = [log EXCEPT ![p] = Append(@, Stmt("UPDATE", req[p].from))]
    /\ UNCHANGED <<balance, lockHolder, req, outer, connStatus, fromBalance,
                   result, effect, done, observed>>

\* lines 43-46
Debit(p) ==
    /\ pc[p] = "debit"
    /\ writes' = UpdateRow(p, req[p].from,
                           DebitValue(TxView(p, req[p].from), req[p].amount))
    /\ pc' = [pc EXCEPT ![p] = "credit"]
    /\ log' = [log EXCEPT ![p] = Append(@, Stmt("UPDATE", req[p].from))]
    /\ UNCHANGED <<balance, lockHolder, req, outer, connStatus, fromBalance,
                   result, effect, done, observed>>

\* lines 47-50
Credit(p) ==
    /\ pc[p] = "credit"
    /\ writes' = UpdateRow(p, req[p].to,
                           CreditValue(TxView(p, req[p].to), req[p].amount))
    /\ pc' = [pc EXCEPT ![p] = "exit"]
    /\ log' = [log EXCEPT ![p] = Append(@, Stmt("UPDATE", req[p].to))]
    /\ UNCHANGED <<balance, lockHolder, req, outer, connStatus, fromBalance,
                   result, effect, done, observed>>

\* COMMIT on p's connection
CommitTx(p) ==
    /\ balance' = CommitWrites(balance, writes[p])
    /\ effect' = EffectAfter(p, CommitWrites(balance, writes[p]))
    /\ writes' = [writes EXCEPT ![p] = NoWrites]
    /\ lockHolder' = ReleaseLocks(p)
    /\ connStatus' = [connStatus EXCEPT ![p] = "IDLE"]
    /\ pc' = [pc EXCEPT ![p] = "idle"]

\* ROLLBACK on p's connection
RollbackTx(p) ==
    /\ balance' = RollbackWrites(balance, writes[p])
    /\ effect' = EffectAfter(p, RollbackWrites(balance, writes[p]))
    /\ writes' = [writes EXCEPT ![p] = NoWrites]
    /\ lockHolder' = ReleaseLocks(p)
    /\ connStatus' = [connStatus EXCEPT ![p] = "IDLE"]
    /\ pc' = [pc EXCEPT ![p] = "idle"]

\* line 26, __exit__ without exception: COMMIT when the block issued
\* BEGIN, RELEASE SAVEPOINT otherwise (the caller's transaction stays open)
ExitTransaction(p) ==
    /\ pc[p] = "exit"
    /\ result' = [result EXCEPT ![p] = "ok"]
    /\ IF outer[p]
       THEN /\ CommitTx(p)
            /\ log' = [log EXCEPT ![p] = Append(@, Stmt("COMMIT", 0))]
       ELSE /\ pc' = [pc EXCEPT ![p] = "returned"]
            /\ log' = [log EXCEPT ![p] = Append(@, Stmt("RELEASE SAVEPOINT", 0))]
            /\ UNCHANGED <<balance, lockHolder, connStatus, writes, effect>>
    /\ UNCHANGED <<req, outer, fromBalance, done, observed>>

\* test_deadlock.py 23-31: leaving "with get_conn() as conn" after the
\* call: commit if the call returned, rollback if it raised; the
\* connection is closed and the thread's next call gets a new one
CallerExit(p) ==
    /\ pc[p] = "returned"
    /\ IF result[p] = "ok" THEN CommitTx(p) ELSE RollbackTx(p)
    /\ UNCHANGED <<req, outer, fromBalance, result, log, done, observed>>

\* evaluation.py 84-85: conn.close() with the transaction still open
CallerClose(p) ==
    /\ pc[p] = "returned"
    /\ RollbackTx(p)
    /\ UNCHANGED <<req, outer, fromBalance, result, log, done, observed>>

\* a statement of the open transaction fails in the store (connection
\* lost, lock_timeout while waiting, constraint violation, failed commit)
StoreError(p) ==
    /\ pc[p] \in InTx
    /\ Abort(p, E_Store, <<>>)
    /\ UNCHANGED fromBalance

\* test_deadlock.py 34-38: _balances() on a connection of its own
Observe ==
    /\ observed' = balance
    /\ UNCHANGED <<balance, lockHolder, pc, req, outer, connStatus, writes,
                   fromBalance, result, log, effect, done>>

----------------------------------------------------------------------------
(* Threads issuing arbitrary calls *)

Invoke(p) == \E r \in Requests : done[p] < MaxCalls /\ Call(p, r)

Prepare(p) == done[p] < MaxCalls /\ CallerSet(p)

Next ==
    \/ \E p \in Threads : Prepare(p)
    \/ \E p \in Threads : Invoke(p)
    \/ \E p \in Threads : LockFirst(p)
    \/ \E p \in Threads : LockSecond(p)
    \/ \E p \in Threads : ReadBalance(p)
    \/ \E p \in Threads : Debit(p)
    \/ \E p \in Threads : Credit(p)
    \/ \E p \in Threads : ExitTransaction(p)
    \/ \E p \in Threads : CallerExit(p)
    \/ \E p \in Threads : CallerClose(p)
    \/ \E p \in Threads : StoreError(p)

Spec == Init /\ [][Next]_vars

----------------------------------------------------------------------------
(* RingThreads threads moving one unit between existing accounts, in any   *)
(* directions, on idle connections.                                        *)

RingRequests == {r \in [from : Accounts, to : Accounts, amount : {1}] : r.from # r.to}

InitRing == InitThreads(1..RingThreads, [a \in Accounts |-> InitBalance])

InvokeRing(p) == \E r \in RingRequests : done[p] < MaxCalls /\ Call(p, r)

NextRing ==
    \/ \E p \in Threads : InvokeRing(p)
    \/ \E p \in Threads : LockFirst(p)
    \/ \E p \in Threads : LockSecond(p)
    \/ \E p \in Threads : ReadBalance(p)
    \/ \E p \in Threads : Debit(p)
    \/ \E p \in Threads : Credit(p)
    \/ \E p \in Threads : ExitTransaction(p)
    \/ \E p \in Threads : StoreError(p)

SpecRing == InitRing /\ [][NextRing]_vars

----------------------------------------------------------------------------
(* Threads on idle connections that call repeatedly, with the same         *)
(* account on both sides (any id, any amount) or moving one unit.          *)

SameRequests == {r \in [from : Ids, to : Ids, amount : (0 - 1)..MaxAmount] : r.from = r.to}

InitReject == InitThreads(1..NumThreads, [a \in Accounts |-> InitBalance])

CanCallAgain(p) == pc[p] = "idle" /\ done[p] < MaxCalls + 1

InvokeReject(p) == \E r \in SameRequests \cup RingRequests : CanCallAgain(p) /\ Call(p, r)

NextReject ==
    \/ \E p \in Threads : InvokeReject(p)
    \/ \E p \in Threads : LockFirst(p)
    \/ \E p \in Threads : LockSecond(p)
    \/ \E p \in Threads : ReadBalance(p)
    \/ \E p \in Threads : Debit(p)
    \/ \E p \in Threads : Credit(p)
    \/ \E p \in Threads : ExitTransaction(p)

SpecReject == InitReject /\ [][NextReject]_vars

----------------------------------------------------------------------------
(* test_multiway_concurrent_transfers: five threads, one transfer each,    *)
(* each on its own connection after SET, released together by the barrier; *)
(* leaving "with get_conn()" ends the connection's transaction.            *)

SeedBalances == [a \in Accounts |-> 1000]

FiveTransfers ==
    <<[from |-> 1, to |-> 2, amount |-> 300],
      [from |-> 2, to |-> 1, amount |-> 200],
      [from |-> 2, to |-> 3, amount |-> 400],
      [from |-> 3, to |-> 2, amount |-> 150],
      [from |-> 1, to |-> 3, amount |-> 100]>>

FinalBalances == (1 :> 800) @@ (2 :> 850) @@ (3 :> 1350)

InitFive ==
    /\ InitThreads(DOMAIN FiveTransfers, SeedBalances)

PrepareFive(p) == done[p] = 0 /\ CallerSet(p)

InvokeFive(p) == done[p] = 0 /\ connStatus[p] = "INTRANS" /\ Call(p, FiveTransfers[p])

NextFive ==
    \/ \E p \in Threads : PrepareFive(p)
    \/ \E p \in Threads : InvokeFive(p)
    \/ \E p \in Threads : LockFirst(p)
    \/ \E p \in Threads : LockSecond(p)
    \/ \E p \in Threads : ReadBalance(p)
    \/ \E p \in Threads : Debit(p)
    \/ \E p \in Threads : Credit(p)
    \/ \E p \in Threads : ExitTransaction(p)
    \/ \E p \in Threads : CallerExit(p)

SpecFive == InitFive /\ [][NextFive]_vars

----------------------------------------------------------------------------
(* test_final_balances_are_correct: the five transfers one after another   *)
(* on one fresh connection, while another connection reads the table.      *)

InitSeq == InitThreads({1}, SeedBalances)

InvokeSeq(p) == done[p] < Len(FiveTransfers) /\ Call(p, FiveTransfers[done[p] + 1])

NextSeq ==
    \/ \E p \in Threads : InvokeSeq(p)
    \/ \E p \in Threads : LockFirst(p)
    \/ \E p \in Threads : LockSecond(p)
    \/ \E p \in Threads : ReadBalance(p)
    \/ \E p \in Threads : Debit(p)
    \/ \E p \in Threads : Credit(p)
    \/ \E p \in Threads : ExitTransaction(p)
    \/ Observe

SpecSeq == InitSeq /\ [][NextSeq]_vars

----------------------------------------------------------------------------
(* Fairness: a thread whose next statement can run (for a lock statement:  *)
(* whose row is free) and stays so eventually runs it.  Starting a call is *)
(* the caller's choice and gets no fairness.                               *)

Progress(p) ==
    \/ LockFirst(p)
    \/ LockSecond(p)
    \/ ReadBalance(p)
    \/ Debit(p)
    \/ Credit(p)
    \/ ExitTransaction(p)
    \/ CallerExit(p)

FairSpec == Spec /\ \A p \in 1..NumThreads : WF_vars(Progress(p))

----------------------------------------------------------------------------
(* A table with one more row than the seeded one, so that two transfers   *)
(* can work on disjoint pairs of accounts, each thread on a fresh          *)
(* connection.                                                             *)

PairAccounts == 1..(NumAccounts + 1)

PairRequests ==
    {r \in [from : PairAccounts, to : PairAccounts, amount : 1..MaxAmount] : r.from # r.to}

InitPairs == InitThreads(1..NumThreads, [a \in PairAccounts |-> InitBalance])

InvokePairs(p) == \E r \in PairRequests : done[p] < MaxCalls /\ Call(p, r)

NextPairs ==
    \/ \E p \in Threads : InvokePairs(p)
    \/ \E p \in Threads : LockFirst(p)
    \/ \E p \in Threads : LockSecond(p)
    \/ \E p \in Threads : ReadBalance(p)
    \/ \E p \in Threads : Debit(p)
    \/ \E p \in Threads : Credit(p)
    \/ \E p \in Threads : ExitTransaction(p)
    \/ \E p \in Threads : StoreError(p)

SpecPairs == InitPairs /\ [][NextPairs]_vars

----------------------------------------------------------------------------
(* Wait-for graph of the row locks *)

\* the row p's pending lock statement asks for
Target(p) == IF pc[p] = "lock_first" THEN FirstId(p) ELSE SecondId(p)

\* p's lock statement is waiting for q to end its transaction
WaitsFor(p, q) ==
    /\ p # q
    /\ pc[p] \in {"lock_first", "lock_second"}
    /\ RowExists(Target(p))
    /\ lockHolder[Target(p)] = q

RECURSIVE Reaches(_, _, _)
Reaches(p, q, n) ==
    \/ WaitsFor(p, q)
    \/ /\ n > 0
       /\ \E m \in Threads : WaitsFor(p, m) /\ Reaches(m, q, n - 1)

WaitCycle == \E p \in Threads : Reaches(p, p, Cardinality(Threads))

----------------------------------------------------------------------------
(* The earlier transfer_funds (repository_before): it checks the amount    *)
(* only, sends BEGIN, reads the balance of from_id without locking,        *)
(* updates from_id and then to_id, and sends COMMIT.  Its row locks are    *)
(* the ones the UPDATE statements take, in the order the caller gave.      *)

BeforeTx == {"b_read", "b_debit", "b_credit", "b_commit"}

\* lines 10-15; BEGIN is sent as a statement, whatever the connection did
\* before
BeforeCall(p, r) ==
    /\ pc[p] = "idle"
    /\ req' = [req EXCEPT ![p] = r]
    /\ done' = [done EXCEPT ![p] = @ + 1]
    /\ effect' = [effect EXCEPT ![p] = NoEffect]
    /\ fromBalance' = [fromBalance EXCEPT ![p] = 0]
    /\ IF r.amount <= 0
       THEN /\ result' = [result EXCEPT ![p] = E_Amount]
            /\ log' = [log EXCEPT ![p] = <<>>]
            /\ UNCHANGED <<pc, connStatus>>
       ELSE /\ result' = [result EXCEPT ![p] = "none"]
            /\ connStatus' = [connStatus EXCEPT ![p] = "INTRANS"]
            /\ log' = [log EXCEPT ![p] = <<Stmt("BEGIN", 0)>>]
            /\ pc' = [pc EXCEPT ![p] = "b_read"]
    /\ UNCHANGED <<balance, lockHolder, writes, outer, observed>>

\* lines 17-25: the plain SELECT waits for nobody; a missing row raises
\* with the transaction left open, a low balance sends ROLLBACK first
BeforeRead(p) ==
    /\ pc[p] = "b_read"
    /\ IF ~RowExists(req[p].from)
       THEN /\ result' = [result EXCEPT ![p] = E_FromNotFound]
            /\ pc' = [pc EXCEPT ![p] = "returned"]
            /\ log' = [log EXCEPT ![p] = Append(@, Stmt("SELECT", req[p].from))]
            /\ UNCHANGED <<balance, lockHolder, connStatus, writes, fromBalance, effect>>
       ELSE LET bal == TxView(p, req[p].from) IN
            /\ fromBalance' = [fromBalance EXCEPT ![p] = bal]
            /\ IF Insufficient(bal, req[p].amount)
               THEN /\ result' = [result EXCEPT ![p] = E_Insufficient]
                    /\ RollbackTx(p)
                    /\ log' = [log EXCEPT ![p] =
                                 @ \o <<Stmt("SELECT", req[p].from), Stmt("ROLLBACK", 0)>>]
               ELSE /\ pc' = [pc EXCEPT ![p] = "b_debit"]
                    /\ log' = [log EXCEPT ![p] = Append(@, Stmt("SELECT", req[p].from))]
                    /\ UNCHANGED <<balance, lockHolder, connStatus, writes, result, effect>>
    /\ UNCHANGED <<req, outer, done, observed>>

\* the accounts table as the specification describes it: the store keeps
\* whatever integer an UPDATE computes, the balance check being the
\* caller's (schema.sql)
StoreAccepts(v) == v \in Int

\* the balance an UPDATE of p computes for row id
BeforeValue(p, id, credit) ==
    IF credit THEN CreditValue(TxView(p, id), req[p].amount)
              ELSE DebitValue(TxView(p, id), req[p].amount)

\* an UPDATE that raises when it matches no row
BeforeUpdateChecked(p, id, credit, next) ==
    /\ RowExists(id) => LockFree(p, id)
    /\ IF RowExists(id)
       THEN /\ lockHolder' = [lockHolder EXCEPT ![id] = p]
            /\ writes' = UpdateRow(p, id, BeforeValue(p, id, credit))
            /\ pc' = [pc EXCEPT ![p] = next]
            /\ UNCHANGED result
       ELSE /\ result' = [result EXCEPT ![p] = E_NotFound]
            /\ pc' = [pc EXCEPT ![p] = "returned"]
            /\ UNCHANGED <<lockHolder, writes>>
    /\ log' = [log EXCEPT ![p] = Append(@, Stmt("UPDATE", id))]
    /\ UNCHANGED <<balance, req, outer, connStatus, fromBalance, effect,
                   done, observed>>

\* an UPDATE ... WHERE id = %s: it takes the row lock, waiting while
\* another transaction holds it, and then writes the new row version
\* computed from the latest committed one; no row, nothing happens; a
\* value the table refuses fails the statement and the exception leaves
\* the call with its transaction open
BeforeUpdate(p, id, credit, next) ==
    /\ RowExists(id) => LockFree(p, id)
    /\ IF RowExists(id) /\ ~StoreAccepts(BeforeValue(p, id, credit))
       THEN /\ lockHolder' = [lockHolder EXCEPT ![id] = p]
            /\ result' = [result EXCEPT ![p] = E_Store]
            /\ pc' = [pc EXCEPT ![p] = "returned"]
            /\ UNCHANGED writes
       ELSE /\ IF RowExists(id)
               THEN /\ lockHolder' = [lockHolder EXCEPT ![id] = p]
                    /\ writes' = UpdateRow(p, id, BeforeValue(p, id, credit))
               ELSE UNCHANGED <<lockHolder, writes>>
            /\ pc' = [pc EXCEPT ![p] = next]
            /\ UNCHANGED result
    /\ log' = [log EXCEPT ![p] = Append(@, Stmt("UPDATE", id))]
    /\ UNCHANGED <<balance, req, outer, connStatus, fromBalance, effect,
                   done, observed>>

\* line 27
BeforeDebit(p) ==
    /\ pc[p] = "b_debit"
    /\ BeforeUpdate(p, req[p].from, FALSE, "b_credit")

\* line 28
BeforeCredit(p) ==
    /\ pc[p] = "b_credit"
    /\ BeforeUpdate(p, req[p].to, TRUE, "b_commit")

\* line 30
BeforeCommit(p) ==
    /\ pc[p] = "b_commit"
    /\ result' = [result EXCEPT ![p] = "ok"]
    /\ CommitTx(p)
    /\ log' = [log EXCEPT ![p] = Append(@, Stmt("COMMIT", 0))]
    /\ UNCHANGED <<req, outer, fromBalance, done, observed>>

\* the row p's pending UPDATE asks for
BeforeTarget(p) == IF pc[p] = "b_debit" THEN req[p].from ELSE req[p].to

\* p's UPDATE is waiting for q to end its transaction
BeforeWaitsFor(p, q) ==
    /\ p # q
    /\ pc[p] \in {"b_debit", "b_credit"}
    /\ RowExists(BeforeTarget(p))
    /\ lockHolder[BeforeTarget(p)] = q

\* p waits for q, whichever version of the code it runs
AnyWaitsFor(p, q) == WaitsFor(p, q) \/ BeforeWaitsFor(p, q)

RECURSIVE AnyReaches(_, _, _)
AnyReaches(p, q, n) ==
    \/ AnyWaitsFor(p, q)
    \/ /\ n > 0
       /\ \E m \in Threads : AnyWaitsFor(p, m) /\ AnyReaches(m, q, n - 1)

\* p is part of a circular wait
InWaitCycle(p) == AnyReaches(p, p, Cardinality(Threads))

\* the store's deadlock detector (deadlock_timeout) fails the waiting
\* UPDATE of one transaction of a circular wait; the failed transaction
\* loses its row versions and locks, and the exception leaves the call
BeforeDeadlock(p) ==
    /\ pc[p] \in BeforeTx
    /\ InWaitCycle(p)
    /\ result' = [result EXCEPT ![p] = E_Store]
    /\ balance' = RollbackWrites(balance, writes[p])
    /\ effect' = EffectAfter(p, RollbackWrites(balance, writes[p]))
    /\ writes' = [writes EXCEPT ![p] = NoWrites]
    /\ lockHolder' = ReleaseLocks(p)
    /\ pc' = [pc EXCEPT ![p] = "returned"]
    /\ log' = [log EXCEPT ![p] = Append(@, Stmt("UPDATE", BeforeTarget(p)))]
    /\ UNCHANGED <<req, outer, connStatus, fromBalance, done, observed>>

(* A run uses one of the two versions of the module for all its calls.     *)
(* A finished call of the earlier version is known by its unlocked read.   *)
UsesBefore(p) ==
    \/ pc[p] \in BeforeTx
    \/ Len(log[p]) >= 2 /\ log[p][2].op = "SELECT"

UsesAfter(p) ==
    \/ pc[p] \in InTx
    \/ Len(log[p]) >= 2 /\ log[p][2].op = "LOCK"

InvokeBefore(p) ==
    /\ \A q \in Threads : ~UsesAfter(q)
    /\ \E r \in Requests : done[p] < MaxCalls /\ BeforeCall(p, r)

InvokeAfter(p) ==
    /\ \A q \in Threads : ~UsesBefore(q)
    /\ \E r \in Requests : done[p] < MaxCalls /\ Call(p, r)

NextVersions ==
    \/ \E p \in Threads : InvokeBefore(p)
    \/ \E p \in Threads : BeforeRead(p)
    \/ \E p \in Threads : BeforeDebit(p)
    \/ \E p \in Threads : BeforeCredit(p)
    \/ \E p \in Threads : BeforeCommit(p)
    \/ \E p \in Threads : BeforeDeadlock(p)
    \/ \E p \in Threads : CallerExit(p)
    \/ \E p \in Threads : InvokeAfter(p)
    \/ \E p \in Threads : LockFirst(p)
    \/ \E p \in Threads : LockSecond(p)
    \/ \E p \in Threads : ReadBalance(p)
    \/ \E p \in Threads : Debit(p)
    \/ \E p \in Threads : Credit(p)
    \/ \E p \in Threads : ExitTransaction(p)

SpecVersions == Init /\ [][NextVersions]_vars

----------------------------------------------------------------------------
(* Another client of the store deleting account rows while transfers run.  *)
(* DELETE takes the lock of the row it removes, so it waits for a transfer *)
(* that holds it, and a lock statement of a transfer waits for a DELETE    *)
(* that has not ended; when the deletion commits the row is gone.          *)

Outsider == NumThreads + 1

\* DELETE FROM accounts WHERE id = a, not yet committed
DeleteRow(a) ==
    /\ RowExists(a)
    /\ lockHolder[a] = 0
    /\ lockHolder' = [lockHolder EXCEPT ![a] = Outsider]
    /\ UNCHANGED <<balance, pc, req, outer, connStatus, writes, fromBalance,
                   result, log, effect, done, observed>>

\* the deleting transaction commits: the row no longer exists
DeleteCommit(a) ==
    /\ RowExists(a)
    /\ lockHolder[a] = Outsider
    /\ balance' = [b \in DOMAIN balance \ {a} |-> balance[b]]
    /\ lockHolder' = [b \in DOMAIN lockHolder \ {a} |-> lockHolder[b]]
    /\ UNCHANGED <<pc, req, outer, connStatus, writes, fromBalance, result, log,
                   effect, done, observed>>

\* the deleting transaction rolls back: the row stays
DeleteRollback(a) ==
    /\ RowExists(a)
    /\ lockHolder[a] = Outsider
    /\ lockHolder' = [lockHolder EXCEPT ![a] = 0]
    /\ UNCHANGED <<balance, pc, req, outer, connStatus, writes, fromBalance,
                   result, log, effect, done, observed>>

\* transfers between two accounts of the seeded table
SeededRequests ==
    {r \in Requests : Validate(r) = "ok" /\ r.from \in Accounts /\ r.to \in Accounts}

InvokeSeeded(p) == \E r \in SeededRequests : done[p] < MaxCalls /\ Call(p, r)

NextDelete ==
    \/ \E p \in Threads : InvokeSeeded(p)
    \/ \E p \in Threads : LockFirst(p)
    \/ \E p \in Threads : LockSecond(p)
    \/ \E p \in Threads : ReadBalance(p)
    \/ \E p \in Threads : Debit(p)
    \/ \E p \in Threads : Credit(p)
    \/ \E p \in Threads : ExitTransaction(p)
    \/ \E a \in Accounts : DeleteRow(a)
    \/ \E a \in Accounts : DeleteCommit(a)
    \/ \E a \in Accounts : DeleteRollback(a)

SpecDelete == Init /\ [][NextDelete]_vars

----------------------------------------------------------------------------
(* Properties *)

\* C1: conservation.  In every state the committed balances, which are what
\* any other connection reads, add up to the initial total, whatever the
\* interleaving of the transfers: no debit is committed without its credit.
Conservation == Total(balance) = NumAccounts * InitBalance

\* one transfer has committed while another has written its debit and not
\* yet its credit
ConservationWitness ==
    \E p, q \in Threads :
        /\ p # q
        /\ result[p] = "ok"
        /\ effect[p][req[p].from] < 0
        /\ pc[q] = "credit"
        /\ req[q].from \in DOMAIN writes[q]

\* C2: no committed balance is ever negative.
NoNegativeBalance == \A a \in DOMAIN balance : balance[a] >= 0

\* two transfers drain the same account: one committed and emptied it, the
\* other was refused
NoNegativeWitness ==
    \E p, q \in Threads :
        /\ p # q
        /\ req[p].from = req[q].from
        /\ result[p] = "ok" /\ effect[p][req[p].from] < 0
        /\ result[q] = E_Insufficient
        /\ balance[req[p].from] = 0

\* C3: the wait-for graph of the row locks never has a cycle.
NoWaitCycle == ~WaitCycle

\* the chain 1->2, 2->3, 3->1 in flight, with a chain of two waits
NoWaitCycleWitness ==
    \E p, q, s \in Threads :
        /\ req[p].from = 3 /\ req[p].to = 1
        /\ req[q].from = 1 /\ req[q].to = 2
        /\ req[s].from = 2 /\ req[s].to = 3
        /\ WaitsFor(p, q)
        /\ WaitsFor(q, s)

\* C4: under fair scheduling every transfer that entered its transaction
\* block leaves it, having committed or rolled back and reported its error;
\* none stays at a lock statement for ever.
EventualCompletion ==
    \A p \in 1..NumThreads : (pc[p] \in InTx) ~> (pc[p] \notin InTx)

\* a transfer is waiting for a row lock while the opposing transfer holds it
EventualCompletionWitness ==
    \E p, q \in Threads :
        /\ req[p].from = req[q].to /\ req[p].to = req[q].from
        /\ WaitsFor(p, q)

\* C5: a call that failed, with whatever error, has made no change to the
\* committed balances, while it ran and after it returned.
AtomicityOnFailure ==
    \A p \in Threads : result[p] \in Errors => effect[p] = NoEffect

\* one call failed in the store after its debit was written, another was
\* refused for insufficient funds
AtomicityWitness ==
    \E p, q \in Threads :
        /\ result[p] = E_Store
        /\ \E i \in DOMAIN log[p] : log[p][i].op = "UPDATE"
        /\ result[q] = E_Insufficient

\* all five threads of the concurrent test are through
FiveFinished == \A p \in Threads : done[p] = 1 /\ pc[p] = "idle"

\* C6: the five concurrent transfers of the test never report an error, are
\* never stuck (some thread can always take a step until all are through,
\* and no wait-for cycle forms), and end with balances 800, 850, 1350.
FiveConcurrent ==
    /\ \A p \in Threads : result[p] \notin Errors
    /\ ~WaitCycle
    /\ FiveFinished \/ ENABLED NextFive
    /\ FiveFinished => balance = FinalBalances

\* all five returned without error and the table has the final balances
FiveConcurrentWitness ==
    /\ FiveFinished
    /\ \A p \in Threads : result[p] = "ok"
    /\ balance = FinalBalances

\* balances after the first k transfers of the list, applied one at a time
RECURSIVE BalancesAfter(_)
BalancesAfter(k) ==
    IF k = 0 THEN SeedBalances
    ELSE LET b == BalancesAfter(k - 1)
             t == FiveTransfers[k]
         IN [b EXCEPT ![t.from] = @ - t.amount, ![t.to] = @ + t.amount]

\* C7: run one after another on one connection, each of the five calls
\* returns without error having committed its own transaction (BEGIN ...
\* COMMIT, connection idle again, no lock left), and the balances after the
\* fifth are 800, 850, 1350.
FiveSequential ==
    /\ result[1] \notin Errors
    /\ pc[1] = "idle" =>
          /\ balance = BalancesAfter(done[1])
          /\ connStatus[1] = "IDLE"
          /\ HeldBy(1) = {}
          /\ done[1] > 0 =>
                /\ result[1] = "ok"
                /\ log[1][1].op = "BEGIN"
                /\ log[1][Len(log[1])].op = "COMMIT"
    /\ (pc[1] = "idle" /\ done[1] = Len(FiveTransfers)) => balance = FinalBalances
    /\ \E k \in 0..done[1] : observed = BalancesAfter(k)

\* the fifth call has returned and the observer has read the final table
FiveSequentialWitness ==
    /\ pc[1] = "idle"
    /\ done[1] = Len(FiveTransfers)
    /\ result[1] = "ok"
    /\ observed = FinalBalances

\* p's balance read and check (lines 33-40) ran in this step, without a
\* store error
CheckStep(p) == pc[p] = "read" /\ pc'[p] # "read" /\ result'[p] # E_Store

\* p's transaction block ended normally in this step
ExitStep(p) == pc[p] = "exit" /\ pc'[p] # "exit" /\ result'[p] # E_Store

InvalidCall(p) ==
    /\ done'[p] = done[p] + 1
    /\ req'[p].amount <= 0 \/ req'[p].from = req'[p].to

\* the call of this step sent nothing to the store: no BEGIN or SAVEPOINT,
\* no lock request, no read, no write
NoStoreAccess(p) ==
    /\ log'[p] = <<>>
    /\ pc'[p] \notin InTx
    /\ UNCHANGED <<balance, lockHolder, writes, connStatus, outer>>

\* C9: a call with amount <= 0 or from_id = to_id fails with InvalidAmount
\* before any store access.
InvalidBeforeStore ==
    [][\A p \in Threads :
          InvalidCall(p) => Kind(result'[p]) = "InvalidAmount" /\ NoStoreAccess(p)
    ]_vars

\* a rejected zero-amount call on a connection whose transaction the caller
\* had opened, while the other thread is inside its transfer
InvalidBeforeStoreWitness ==
    \E p, q \in Threads :
        /\ result[p] = E_Amount
        /\ req[p].from # req[p].to
        /\ connStatus[p] = "INTRANS"
        /\ log[p] = <<>>
        /\ pc[q] \in InTx

\* p's call was made in this step with the same account on both sides
SameAccountCall(p) == done'[p] = done[p] + 1 /\ req'[p].from = req'[p].to

\* C10: Transfer(a, a, n) can be called in every store state and returns
\* in the call step itself, without waiting for a row lock, with
\* InvalidAmount, for every n and every a, existing or not; it changes
\* nothing in the store, and a repetition with the same arguments gives the
\* same result.
SameAccountRejected ==
    /\ [](\A p \in Threads :
             CanCallAgain(p) => \A r \in SameRequests : ENABLED Call(p, r))
    /\ [][\A p \in Threads :
             SameAccountCall(p) =>
                /\ Kind(result'[p]) = "InvalidAmount"
                /\ pc'[p] = "idle"
                /\ log'[p] = <<>>
                /\ UNCHANGED <<balance, lockHolder, writes, connStatus>>
                /\ (done[p] > 0 /\ req'[p] = req[p]) => result'[p] = result[p]
       ]_vars

\* a second same-account call was rejected while the other thread, inside
\* its transfer, held the lock on that account's row
SameAccountRejectedWitness ==
    \E p, q \in Threads :
        /\ done[p] = 2
        /\ pc[p] = "idle"
        /\ req[p].from = req[p].to
        /\ req[p].amount > 0
        /\ result[p] = E_Same
        /\ pc[q] \in InTx
        /\ RowExists(req[p].from)
        /\ lockHolder[req[p].from] = q

----------------------------------------------------------------------------
(* The call names an account without a row, with arguments that pass the   *)
(* argument checks.                                                        *)
MissingAccountCall(p) ==
    /\ Validate(req[p]) = "ok"
    /\ ~RowExists(req[p].from) \/ ~RowExists(req[p].to)

\* the last statement the call sent undoes its transaction block
RolledBackLast(p) ==
    /\ log[p] # <<>>
    /\ log[p][Len(log[p])].op \in {"ROLLBACK", "ROLLBACK TO SAVEPOINT"}

(* C11: a call naming an account that does not exist (from_id, to_id or    *)
(* both) never succeeds and never reaches the balance read; the lock       *)
(* statement that finds no row ends the call with "account not found"      *)
(* (the AccountNotFound kind), and in that same step the block is rolled   *)
(* back: the call holds no row lock any more (the lock it may have taken   *)
(* on the existing account is released), it has no uncommitted row         *)
(* version, and no committed balance has changed.                          *)
AccountNotFoundRollsBack ==
    [][\A p \in Threads :
         /\ (pc[p] \in InTx /\ MissingAccountCall(p))
               => /\ pc[p] \in {"lock_first", "lock_second"}
                  /\ pc'[p] \notin {"read", "debit", "credit", "exit"}
                  /\ result'[p] \in {"none", E_NotFound, E_Store}
         /\ (pc[p] = "lock_first" /\ ~RowExists(FirstId(p)) /\ LockFirst(p))
               => result'[p] = E_NotFound
         /\ (pc[p] = "lock_second" /\ ~RowExists(SecondId(p)) /\ LockSecond(p))
               => result'[p] = E_NotFound
         /\ (pc[p] \in InTx /\ result'[p] = E_NotFound)
               => /\ MissingAccountCall(p)
                  /\ Kind(result'[p]) = "AccountNotFound"
                  /\ pc'[p] \notin InTx
                  /\ RolledBackLast(p)'
                  /\ HeldBy(p)' = {}
                  /\ writes'[p] = NoWrites
                  /\ balance' = balance
                  /\ effect'[p] = NoEffect
    ]_vars

\* a call was refused for its second account after it had locked the
\* existing first one, while the other thread was refused for two
\* missing accounts without having locked anything
AccountNotFoundWitness ==
    \E p, q \in Threads :
        /\ result[p] = E_NotFound
        /\ Len(log[p]) = 4
        /\ log[p][2] = Stmt("LOCK", FirstId(p))
        /\ RowExists(FirstId(p))
        /\ HeldBy(p) = {}
        /\ result[q] = E_NotFound
        /\ ~RowExists(req[q].from) /\ ~RowExists(req[q].to)
        /\ Len(log[q]) = 3

----------------------------------------------------------------------------
(* C12: a store error can strike an open transfer wherever it stands       *)
(* (waiting for or taking either lock, reading, updating, committing);     *)
(* the step in which the call reports it (the store's own exception, the   *)
(* StoreFailure kind) is the step that rolls the block back: afterwards    *)
(* the call is over, holds no row lock, has no uncommitted row version,    *)
(* and the committed balances are those from before the failing step;      *)
(* the call as a whole has changed no committed balance.                   *)
StoreFailureRollsBack ==
    [][\A p \in Threads :
         /\ (pc[p] \in InTx) => ENABLED StoreError(p)
         /\ (pc[p] \in InTx /\ result'[p] = E_Store)
               => /\ Kind(result'[p]) = "StoreFailure"
                  /\ pc'[p] \notin InTx
                  /\ RolledBackLast(p)'
                  /\ HeldBy(p)' = {}
                  /\ writes'[p] = NoWrites
                  /\ balance' = balance
                  /\ effect'[p] = NoEffect
                  /\ \A q \in Threads \ {p} :
                        /\ HeldBy(q)' = HeldBy(q)
                        /\ writes'[q] = writes[q]
    ]_vars

\* one call failed in the store after both of its updates, the other
\* after its first lock statement; the table is as it was seeded
StoreFailureWitness ==
    \E p, q \in Threads :
        /\ result[p] = E_Store
        /\ Len(log[p]) = 7
        /\ log[p][5].op = "UPDATE" /\ log[p][6].op = "UPDATE"
        /\ result[q] = E_Store
        /\ Len(log[q]) = 3
        /\ HeldBy(p) = {} /\ HeldBy(q) = {}
        /\ balance = [a \in Accounts |-> InitBalance]

----------------------------------------------------------------------------
(* What the call of p is to change: amount off from_id, amount onto to_id. *)
Moved(p) ==
    [a \in Accounts |-> IF a = req[p].from THEN 0 - req[p].amount
                        ELSE IF a = req[p].to THEN req[p].amount
                        ELSE 0]

\* the rows p's transaction has written and not yet committed, as changes
\* to the committed table
Pending(p) == [a \in Accounts |-> TxView(p, a) - balance[a]]

----------------------------------------------------------------------------
(* C14: whenever a call has returned successfully, whatever the state of   *)
(* the caller's connection before it, the debit and the credit are         *)
(* committed (the committed table has changed by exactly the transfer)     *)
(* and nothing of the call is still uncommitted on the connection, so      *)
(* that nothing the caller does afterwards can undo it.                    *)
OwnsTransaction ==
    \A p \in Threads :
        (result[p] = "ok" /\ pc[p] \notin InTx)
            => /\ effect[p] = Moved(p)
               /\ writes[p] = NoWrites

----------------------------------------------------------------------------
(* C15: whenever a call is not running (it has not started, or it has      *)
(* returned, normally or with any error) its connection holds no row       *)
(* lock, so no other transfer can be waiting for a row of a call that has  *)
(* already returned.                                                       *)
ReleasedAtReturn ==
    \A p \in Threads :
        /\ pc[p] \notin InTx => HeldBy(p) = {}
        /\ \A q \in Threads : WaitsFor(q, p) => pc[p] \in InTx

----------------------------------------------------------------------------
\* the pair of row ids the call of p is to lock, in locking order
LockPair(p) == OrderAccounts(req[p].from, req[p].to)

(* C16: for every transfer in progress (its two ids are distinct) the      *)
(* computed pair has first < second, consists of exactly from_id and       *)
(* to_id, and is the pair computed for the opposite direction; two         *)
(* transfers over the same two accounts get the same pair whatever their   *)
(* directions, amounts, threads, connection states and the moment they     *)
(* are at; and the pair is the one the lock statements follow.             *)
LockOrderFunction ==
    \A p \in Threads :
        pc[p] \in InTx =>
            LET x == req[p].from
                y == req[p].to
            IN  /\ x # y
                /\ LockPair(p)[1] < LockPair(p)[2]
                /\ {LockPair(p)[1], LockPair(p)[2]} = {x, y}
                /\ OrderAccounts(y, x) = LockPair(p)
                /\ \A q \in Threads :
                      (pc[q] \in InTx /\ {req[q].from, req[q].to} = {x, y})
                          => LockPair(q) = LockPair(p)
                /\ Len(log[p]) >= 2 => log[p][2] = Stmt("LOCK", LockPair(p)[1])
                /\ (Len(log[p]) >= 3 /\ log[p][3].op = "LOCK")
                      => log[p][3].id = LockPair(p)[2]

\* two transfers over the same two accounts, in opposite directions, with
\* different amounts, one on a fresh connection and one after SET, both
\* past their first lock statement's request
LockOrderWitness ==
    \E p, q \in Threads :
        /\ pc[p] = "lock_second" /\ pc[q] = "lock_first"
        /\ req[p].from = req[q].to /\ req[p].to = req[q].from
        /\ req[p].from > req[p].to
        /\ req[p].amount # req[q].amount
        /\ outer[p] /\ ~outer[q]
        /\ LockPair(p) = LockPair(q)

----------------------------------------------------------------------------
\* the call of p has ended without success
Failed(p) == pc[p] \notin InTx /\ done[p] > 0 /\ result[p] # "ok"

FourKinds == {"InvalidAmount", "AccountNotFound", "InsufficientFunds", "StoreFailure"}

(* C17 as stated: every failed call reports one of the four kinds, and     *)
(* two failures of different kinds reach their callers as exceptions of    *)
(* different classes, so that an except clause tells them apart.           *)
KindsToldApart ==
    \A p, q \in Threads :
        /\ Failed(p) => Kind(result[p]) \in FourKinds
        /\ (Failed(p) /\ Failed(q) /\ Kind(result[p]) # Kind(result[q]))
              => ExcType(result[p]) # ExcType(result[q])

(* C17 as the code has it: every failed call raises exactly one exception, *)
(* of one of three classes: ValueError for the argument failures and for   *)
(* a missing account alike, InsufficientFunds, and the store's own error.  *)
(* The class tells insufficient funds, store failures and the ValueError   *)
(* group apart; inside the ValueError group a missing account differs      *)
(* from amount <= 0 or from_id == to_id by the message text only.          *)
KindsByClassAndMessage ==
    \A p, q \in Threads :
        /\ Failed(p) =>
              /\ result[p] \in Errors
              /\ Kind(result[p]) \in FourKinds
              /\ Kind(result[p]) = "InsufficientFunds"
                     <=> ExcType(result[p]) = "InsufficientFunds"
              /\ Kind(result[p]) = "StoreFailure"
                     <=> ExcType(result[p]) = "psycopg.Error"
              /\ Kind(result[p]) \in {"InvalidAmount", "AccountNotFound"}
                     <=> ExcType(result[p]) = "ValueError"
              /\ Kind(result[p]) = "InvalidAmount" <=> Validate(req[p]) # "ok"
              /\ Kind(result[p]) = "AccountNotFound" => MissingAccountCall(p)
        /\ (Failed(p) /\ Failed(q) /\ Kind(result[p]) # Kind(result[q]))
              => /\ result[p] # result[q]
                 /\ ExcType(result[p]) = ExcType(result[q])
                       => {Kind(result[p]), Kind(result[q])}
                             = {"InvalidAmount", "AccountNotFound"}

\* one call was refused for its amount and the other for a missing
\* account: two kinds, one exception class, two messages
KindsWitness ==
    \E p, q \in Threads :
        /\ Failed(p) /\ Failed(q)
        /\ Kind(result[p]) = "InvalidAmount"
        /\ Kind(result[q]) = "AccountNotFound"
        /\ ExcType(result[p]) = ExcType(result[q])
        /\ result[p] # result[q]

----------------------------------------------------------------------------
\* how many statements of the kinds ops, on the rows ids, a call has sent
Sent(s, ops, ids) ==
    Cardinality({i \in 1..Len(s) : s[i].op \in ops /\ s[i].id \in ids})

Rollbacks == {"ROLLBACK", "ROLLBACK TO SAVEPOINT"}

(* C18: the statements one call sends contain at most one BEGIN or         *)
(* SAVEPOINT, at most one lock statement per row and at most two in all,   *)
(* at most one read and one update per row; a call that failed inside its  *)
(* block has sent exactly one rollback, as its last statement; and once a  *)
(* call has failed it sends nothing more and does not run again unless     *)
(* the caller makes a new call.                                            *)
NoRetry ==
    /\ [](\A p \in Threads :
            /\ Sent(log[p], {"BEGIN", "SAVEPOINT"}, {0}) <= 1
            /\ Sent(log[p], {"LOCK"}, Ids) <= 2
            /\ \A a \in Ids :
                  /\ Sent(log[p], {"LOCK"}, {a}) <= 1
                  /\ Sent(log[p], {"SELECT"}, {a}) <= 1
                  /\ Sent(log[p], {"UPDATE"}, {a}) <= 1
            /\ (result[p] \in Errors /\ log[p] # <<>>)
                  => /\ Sent(log[p], Rollbacks, {0}) = 1
                     /\ RolledBackLast(p)
                     /\ Sent(log[p], {"COMMIT", "RELEASE SAVEPOINT"}, {0}) = 0
            /\ (pc[p] \notin InTx /\ done[p] > 0) => result[p] # "none")
    /\ [][\A p \in Threads :
            (result[p] \in Errors /\ done'[p] = done[p])
               => /\ log'[p] = log[p]
                  /\ result'[p] = result[p]
                  /\ pc'[p] \notin InTx
       ]_vars

\* one call was refused after its two lock statements and its read and is
\* over; the other failed in the store after both of its updates
NoRetryWitness ==
    \E p, q \in Threads :
        /\ result[p] = E_Insufficient
        /\ Len(log[p]) = 5
        /\ pc[p] = "idle"
        /\ result[q] = E_Store
        /\ Sent(log[q], {"UPDATE"}, Ids) = 2

----------------------------------------------------------------------------
\* p holds the row locks of both accounts of its call
HoldsBoth(p) ==
    /\ RowExists(req[p].from) /\ lockHolder[req[p].from] = p
    /\ RowExists(req[p].to) /\ lockHolder[req[p].to] = p

\* the step sends a balance read or an update for p
TouchesBalance(p) ==
    /\ Len(log'[p]) > Len(log[p])
    /\ \E i \in (Len(log[p]) + 1)..Len(log'[p]) : log'[p][i].op \in {"SELECT", "UPDATE"}

(* C19: a transfer standing at its balance read, at either update or at    *)
(* its block exit holds the row locks of both from_id and to_id; every     *)
(* step that sends the balance read (with the sufficiency check) or an     *)
(* update starts in such a state; and a call that has sent a read or an    *)
(* update sent its two lock statements before them.                        *)
LocksBeforeRead ==
    /\ [](\A p \in Threads :
            /\ pc[p] \in {"read", "debit", "credit", "exit"} => HoldsBoth(p)
            /\ Sent(log[p], {"SELECT", "UPDATE"}, Ids) > 0
                  => /\ Len(log[p]) >= 4
                     /\ log[p][2].op = "LOCK" /\ log[p][3].op = "LOCK"
                     /\ {log[p][2].id, log[p][3].id} = {req[p].from, req[p].to}
                     /\ \A i \in 1..3 : log[p][i].op \notin {"SELECT", "UPDATE"})
    /\ [][\A p \in Threads :
            (TouchesBalance(p) \/ CheckStep(p)) => HoldsBoth(p)
       ]_vars

\* a transfer between two accounts has read and debited while the other
\* thread, wanting one of the two rows, holds one lock and waits
LocksBeforeReadWitness ==
    \E p, q \in Threads :
        /\ pc[p] = "credit"
        /\ HoldsBoth(p)
        /\ writes[p] # NoWrites
        /\ pc[q] = "lock_second"
        /\ WaitsFor(q, p)
        /\ Cardinality(HeldBy(q)) = 1

----------------------------------------------------------------------------
\* p has passed the sufficiency check and its transaction is still open
CheckedAndOpen(p) ==
    \/ pc[p] \in {"debit", "credit", "exit"}
    \/ pc[p] = "returned" /\ result[p] = "ok"

(* C20: while a transfer holds both row locks, a step changes the          *)
(* committed balance of its from_id or to_id only if it is the commit of   *)
(* that transfer itself; so from the check until the transaction ends the  *)
(* committed balance of from_id is still the one the check read (and it    *)
(* was not below amount), the debit is computed from that balance, and     *)
(* the commit leaves from_id at the balance read minus amount and to_id    *)
(* at its balance plus amount.                                             *)
StableRead ==
    /\ [](\A p \in Threads :
            CheckedAndOpen(p) =>
               /\ HoldsBoth(p)
               /\ fromBalance[p] = balance[req[p].from]
               /\ fromBalance[p] >= req[p].amount
               /\ pc[p] # "debit" =>
                     TxView(p, req[p].from) = fromBalance[p] - req[p].amount)
    /\ [][\A p \in Threads :
            /\ (HoldsBoth(p) /\ (balance'[req[p].from] # balance[req[p].from]
                                 \/ balance'[req[p].to] # balance[req[p].to]))
                  => /\ CheckedAndOpen(p)
                     /\ pc'[p] = "idle"
                     /\ result'[p] = "ok"
                     /\ balance'[req[p].from] = fromBalance[p] - req[p].amount
                     /\ balance'[req[p].to] = balance[req[p].to] + req[p].amount
            /\ (ExitStep(p) /\ outer[p])
                  => balance'[req[p].from] = fromBalance[p] - req[p].amount
       ]_vars

\* a transfer has committed from an account that an earlier transfer of
\* the other thread had credited: it read 2, moved 2 and left 0
StableReadWitness ==
    \E p, q \in Threads :
        /\ p # q
        /\ result[p] = "ok" /\ result[q] = "ok"
        /\ pc[p] = "idle" /\ pc[q] = "idle"
        /\ req[q].to = req[p].from
        /\ fromBalance[p] = InitBalance + req[q].amount
        /\ req[p].amount = fromBalance[p]
        /\ effect[p] = Moved(p) /\ effect[q] = Moved(q)
        /\ balance[req[p].from] = 0

----------------------------------------------------------------------------
\* the step sends a lock statement of p for row a
RequestsLock(p, a) ==
    /\ Len(log'[p]) > Len(log[p])
    /\ \E i \in (Len(log[p]) + 1)..Len(log'[p]) : log'[p][i] = Stmt("LOCK", a)

(* C21: in every reachable state a transfer that holds a row lock and is   *)
(* about to request, or is waiting for, another one holds exactly the      *)
(* lower of its two account ids and asks for the higher one, whichever of  *)
(* the two is from_id; a transfer at its first lock statement holds        *)
(* nothing; and no step sends a lock statement for an id that is not       *)
(* above every id the transfer already holds.                              *)
CanonicalOrder ==
    /\ [](\A p \in Threads :
            /\ pc[p] = "lock_first" => HeldBy(p) = {}
            /\ pc[p] = "lock_second" =>
                  /\ HeldBy(p) = {FirstId(p)}
                  /\ FirstId(p) < SecondId(p)
                  /\ {FirstId(p), SecondId(p)} = {req[p].from, req[p].to}
                  /\ Target(p) = SecondId(p)
                  /\ \A a \in HeldBy(p) : a < Target(p))
    /\ [][\A p \in Threads : \A a \in Ids :
            RequestsLock(p, a) => \A h \in HeldBy(p) : h < a
       ]_vars

\* a transfer from the higher to the lower account holds the lower row
\* and waits for the higher one, which is held by a transfer of the other
\* thread that goes from a lower account to that row
CanonicalOrderWitness ==
    \E p, q \in Threads :
        /\ pc[p] = "lock_second"
        /\ req[p].from > req[p].to
        /\ HeldBy(p) = {req[p].to}
        /\ WaitsFor(p, q)
        /\ req[q].from < req[q].to
        /\ req[q].to = req[p].from

----------------------------------------------------------------------------
\* the next step of p's call cannot be taken in this state
Blocked(p) ==
    \/ pc[p] = "lock_first" /\ ~ENABLED LockFirst(p)
    \/ pc[p] = "lock_second" /\ ~ENABLED LockSecond(p)
    \/ pc[p] = "read" /\ ~ENABLED ReadBalance(p)
    \/ pc[p] = "debit" /\ ~ENABLED Debit(p)
    \/ pc[p] = "credit" /\ ~ENABLED Credit(p)
    \/ pc[p] = "exit" /\ ~ENABLED ExitTransaction(p)
    \/ pc[p] = "returned" /\ ~(ENABLED CallerExit(p) /\ ENABLED CallerClose(p))

(* C22: a transfer whose next step cannot be taken is at its first or      *)
(* second lock statement, and the row it asks for is locked by another     *)
(* transaction; a transfer that holds both locks is never in that          *)
(* situation: its balance read and check, each update, the end of its      *)
(* block (commit) and the rollback on a failure can be taken whatever the  *)
(* other transfers are doing.                                              *)
BlocksOnlyAtLocks ==
    \A p \in Threads :
        /\ Blocked(p) =>
              /\ pc[p] \in {"lock_first", "lock_second"}
              /\ \E q \in Threads : WaitsFor(p, q)
        /\ HoldsBoth(p) => ~Blocked(p)
        /\ pc[p] = "read" => HoldsBoth(p) /\ ENABLED ReadBalance(p)
        /\ pc[p] = "debit" => HoldsBoth(p) /\ ENABLED Debit(p)
        /\ pc[p] = "credit" => HoldsBoth(p) /\ ENABLED Credit(p)
        /\ pc[p] = "exit" => HoldsBoth(p) /\ ENABLED ExitTransaction(p)
        /\ pc[p] \in InTx => ENABLED StoreError(p)

\* two transfers on disjoint pairs both hold their locks, one between
\* its updates and one about to debit; neither is held up
BlocksOnlyAtLocksWitness ==
    \E p, q \in Threads :
        /\ p # q
        /\ pc[p] = "credit" /\ HoldsBoth(p) /\ ENABLED Credit(p)
        /\ pc[q] = "debit" /\ HoldsBoth(q) /\ ENABLED Debit(q)
        /\ ~Blocked(p) /\ ~Blocked(q)

----------------------------------------------------------------------------
\* the two rows the call of p names
OwnRows(p) == {req[p].from, req[p].to}

(* C23: in every reachable state the rows a transfer has locked, and the   *)
(* rows it has written, are among from_id and to_id; every lock statement  *)
(* and every update it has sent names from_id or to_id, and every balance  *)
(* read names from_id; the row of a third account is never locked, read    *)
(* or written by it.                                                       *)
ExactlyTwoRows ==
    \A p \in Threads :
        /\ HeldBy(p) \subseteq OwnRows(p)
        /\ DOMAIN writes[p] \subseteq OwnRows(p)
        /\ \A i \in 1..Len(log[p]) :
              /\ log[p][i].op \in {"LOCK", "UPDATE"} => log[p][i].id \in OwnRows(p)
              /\ log[p][i].op = "SELECT" => log[p][i].id = req[p].from
        /\ \A a \in DOMAIN balance \ OwnRows(p) : TxView(p, a) = balance[a]

\* a transfer has locked, read and written its two rows, and the third
\* row of the table is locked by nobody
ExactlyTwoRowsWitness ==
    \E p \in Threads :
        /\ pc[p] = "exit"
        /\ HeldBy(p) = OwnRows(p)
        /\ DOMAIN writes[p] = OwnRows(p)
        /\ \E a \in DOMAIN balance \ OwnRows(p) : lockHolder[a] = 0

----------------------------------------------------------------------------
\* p's transaction, with the row locks it was granted, is still open
TxOpen(p) ==
    \/ pc[p] \in InTx
    \/ pc[p] = "returned" /\ result[p] = "ok"

\* the rows whose lock statement has returned to p in its open transaction
Granted(p) ==
    IF TxOpen(p)
    THEN {a \in DOMAIN balance :
             \E i \in 1..Len(log[p]) : log[p][i] = Stmt("LOCK", a)}
    ELSE {}

(* C24: no row is locked by two open transactions at once: the rows whose  *)
(* lock statements have returned to different transfers are disjoint, and *)
(* they are the rows the store records as held; a held row changes hands   *)
(* only through a state in which it is free, and it becomes free only in   *)
(* the step that ends the holder's transaction (commit or rollback); and   *)
(* the balance read of a transfer returns the committed balance of the     *)
(* moment of the read, with no other transaction having an uncommitted     *)
(* version of that row, so a transfer that waited reads what the holder    *)
(* committed.                                                              *)
MutualExclusion ==
    /\ [](\A p \in Threads :
            /\ Granted(p) = HeldBy(p)
            /\ \A q \in Threads \ {p} :
                  /\ Granted(p) \cap Granted(q) = {}
                  /\ DOMAIN writes[p] \cap DOMAIN writes[q] = {}
                  /\ WaitsFor(p, q) => ~ENABLED LockAccount(p, Target(p), "read"))
    /\ [][/\ \A a \in DOMAIN lockHolder : \A h \in Threads :
               (lockHolder[a] = h /\ lockHolder'[a] # h)
                  => /\ lockHolder'[a] = 0
                     /\ pc'[h] \notin InTx
                     /\ ~(pc'[h] = "returned" /\ result'[h] = "ok")
                     /\ writes'[h] = NoWrites
          /\ \A p \in Threads :
               CheckStep(p)
                  => /\ fromBalance'[p] = balance[req[p].from]
                     /\ \A q \in Threads \ {p} : req[p].from \notin DOMAIN writes[q]
       ]_vars

\* a transfer has read a balance that differs from the seeded one by
\* what the other thread's transfer, which held that row, has committed
MutualExclusionWitness ==
    \E p, q \in Threads :
        /\ p # q
        /\ pc[p] = "debit"
        /\ result[q] = "ok" /\ pc[q] = "idle"
        /\ req[p].from \in OwnRows(q)
        /\ effect[q][req[p].from] # 0
        /\ fromBalance[p] = InitBalance + effect[q][req[p].from]

----------------------------------------------------------------------------
\* the calls of p and q are in progress on pairs of accounts that share
\* no row
DisjointInFlight(p, q) ==
    /\ p # q
    /\ pc[p] \in InTx /\ pc[q] \in InTx
    /\ OwnRows(p) \cap OwnRows(q) = {}

(* C25: a transfer waits for another one only if the two name a common     *)
(* account; a transfer in progress next to a transfer on a disjoint pair   *)
(* can always take its next step, so that both can hold their two locks    *)
(* at once and either of them can commit first.                            *)
NoGlobalLock ==
    \A p, q \in Threads :
        /\ WaitsFor(p, q) => OwnRows(p) \cap OwnRows(q) # {}
        /\ DisjointInFlight(p, q) =>
              /\ ~WaitsFor(p, q)
              /\ (\A r \in Threads \ {p, q} : ~WaitsFor(p, r)) => ~Blocked(p)
              /\ (pc[p] = "exit" /\ pc[q] = "exit")
                    => /\ HoldsBoth(p) /\ HoldsBoth(q)
                       /\ ENABLED ExitTransaction(p)
                       /\ ENABLED ExitTransaction(q)

\* two transfers on disjoint pairs hold their two locks each and have
\* done both updates: either can commit next
NoGlobalLockWitness ==
    \E p, q \in Threads :
        /\ DisjointInFlight(p, q)
        /\ pc[p] = "exit" /\ pc[q] = "exit"
        /\ HoldsBoth(p) /\ HoldsBoth(q)
        /\ Cardinality(HeldBy(p) \cup HeldBy(q)) = 4

----------------------------------------------------------------------------
(* transfer_funds run alone on a committed table bal, on a fresh           *)
(* connection: its outcome and the table it leaves (lines 17-50 in order). *)
SeqOutcome(bal, r) ==
    IF Validate(r) # "ok" THEN Validate(r)
    ELSE IF OrderAccounts(r.from, r.to)[1] \notin DOMAIN bal
            \/ OrderAccounts(r.from, r.to)[2] \notin DOMAIN bal THEN E_NotFound
    ELSE IF Insufficient(bal[r.from], r.amount) THEN E_Insufficient
    ELSE "ok"

SeqBalances(bal, r) ==
    IF SeqOutcome(bal, r) = "ok"
    THEN LET debited == [bal EXCEPT ![r.from] = DebitValue(@, r.amount)]
         IN  [debited EXCEPT ![r.to] = CreditValue(@, r.amount)]
    ELSE bal

\* the call of p has committed
Committed(p) == result[p] = "ok" /\ effect[p] # NoEffect

\* sum over the committed calls of their change to account a
CommittedDelta(a) ==
    SumOver([p \in Threads |-> IF Committed(p) THEN Moved(p)[a] ELSE 0], Threads)

(* C26: whatever the interleaving and the order of the commits, the        *)
(* committed balances are the seeded balances plus, for every transfer     *)
(* that has committed, -amount on its from_id and +amount on its to_id;    *)
(* and for any two of the calls, if each succeeds on the present table     *)
(* both before and after the other, running them one after the other       *)
(* gives the same table in either order.                                   *)
CommutativeDeltas ==
    /\ balance = [a \in Accounts |-> InitBalance + CommittedDelta(a)]
    /\ \A p \in Threads : result[p] = "ok" => effect[p] = Moved(p)
    /\ \A p, q \in Threads :
          LET rp == req[p]
              rq == req[q]
          IN  (/\ done[p] > 0 /\ done[q] > 0
               /\ SeqOutcome(balance, rp) = "ok"
               /\ SeqOutcome(balance, rq) = "ok"
               /\ SeqOutcome(SeqBalances(balance, rp), rq) = "ok"
               /\ SeqOutcome(SeqBalances(balance, rq), rp) = "ok")
              => SeqBalances(SeqBalances(balance, rp), rq)
                    = SeqBalances(SeqBalances(balance, rq), rp)

\* three transfers have committed, two of them crediting the same
\* account, and the table differs from the seeded one
CommutativeDeltasWitness ==
    /\ \A p \in Threads : Committed(p)
    /\ \E p, q \in Threads : p # q /\ req[p].to = req[q].to
    /\ balance # [a \in Accounts |-> InitBalance]
    /\ \E a \in Accounts : balance[a] = InitBalance + 1

----------------------------------------------------------------------------
\* the step is the call of p by its caller
CallStep(p) == pc[p] = "idle" /\ done'[p] = done[p] + 1

\* the step ends p's call inside its transaction block with a failure
\* that is not a store error
RefusalStep(p) == pc[p] \in InTx /\ result'[p] \in Errors \ {E_Store}

\* the step commits what p's call has written
CommitStep(p) ==
    \/ ExitStep(p) /\ outer[p]
    \/ pc[p] = "returned" /\ result[p] = "ok" /\ pc'[p] = "idle" /\ balance' # balance

(* C27: every call takes effect at one step, as if it ran alone on the     *)
(* committed table of that moment.  A call refused by the argument checks  *)
(* is refused as transfer_funds run alone refuses it; a call that fails    *)
(* inside its block (missing account, insufficient funds) reports what the *)
(* call run alone on the committed table would report, and changes         *)
(* nothing; a call that succeeds would succeed alone on the committed      *)
(* table, and its commit turns the table into the one the call run alone   *)
(* leaves; a store error changes nothing; and the committed table changes  *)
(* in no other step.  The calls therefore behave as in the sequential run  *)
(* that takes them in the order of these steps, which for calls sharing a  *)
(* row is the order in which they obtained both locks.                     *)
Serializable ==
    [][/\ \A p \in Threads :
            /\ CallStep(p) =>
                  /\ balance' = balance
                  /\ result'[p] # "none" => result'[p] = SeqOutcome(balance, req'[p])
                  /\ result'[p] = "none" => Validate(req'[p]) = "ok"
            /\ RefusalStep(p) =>
                  /\ result'[p] = SeqOutcome(balance, req[p])
                  /\ balance' = balance
            /\ ExitStep(p) =>
                  /\ result'[p] = "ok"
                  /\ SeqOutcome(balance, req[p]) = "ok"
                  /\ ~outer[p] => balance' = balance
            /\ CommitStep(p) =>
                  /\ SeqOutcome(balance, req[p]) = "ok"
                  /\ balance' = SeqBalances(balance, req[p])
            /\ (pc[p] \in InTx /\ result'[p] = E_Store) => balance' = balance
       /\ balance' # balance => \E p \in Threads : CommitStep(p)
    ]_vars

\* two calls debit the same account, each within the seeded balance: the
\* one that got the locks first has committed, the other was refused
\* because of what the first left
SerializableWitness ==
    \E p, q \in Threads :
        /\ result[p] = "ok" /\ effect[p] = Moved(p)
        /\ result[q] = E_Insufficient
        /\ req[q].from = req[p].from
        /\ req[q].amount <= InitBalance
        /\ SeqOutcome([a \in Accounts |-> InitBalance], req[q]) = "ok"

----------------------------------------------------------------------------
\* the call of p has ended and no store error struck it
Settled(p) == pc[p] \notin InTx /\ done[p] > 0 /\ result[p] # E_Store

(* C28: a call with amount <= 0 or from_id = to_id is reported as an       *)
(* argument failure (amount first) whether or not its accounts exist and   *)
(* whatever the balance; otherwise a call naming a missing account is      *)
(* reported as account-not-found whatever the amount and the balance of    *)
(* from_id, never as InsufficientFunds; and InsufficientFunds is reported  *)
(* only for valid arguments, two existing accounts and a balance below     *)
(* the amount.                                                             *)
ErrorPrecedence ==
    \A p \in Threads :
        LET r == req[p]
            invalid == r.amount <= 0 \/ r.from = r.to
            missing == ~RowExists(r.from) \/ ~RowExists(r.to)
        IN  /\ (done[p] > 0 /\ invalid) =>
                  /\ Kind(result[p]) = "InvalidAmount"
                  /\ r.amount <= 0 => result[p] = E_Amount
                  /\ pc[p] \notin InTx
                  /\ log[p] = <<>>
            /\ (Settled(p) /\ ~invalid /\ missing) =>
                  /\ Kind(result[p]) = "AccountNotFound"
                  /\ Sent(log[p], {"SELECT", "UPDATE"}, Ids) = 0
            /\ (done[p] > 0 /\ result[p] = E_Insufficient) =>
                  /\ ~invalid /\ ~missing
                  /\ fromBalance[p] < r.amount
            /\ (Settled(p) /\ ~invalid /\ ~missing) =>
                  result[p] \in {"ok", E_Insufficient}

\* a transfer of more than the source holds, to an account without a
\* row, was reported as account-not-found; a call with amount 0 on two
\* ids without a row was reported as an argument failure
ErrorPrecedenceWitness ==
    \E p, q \in Threads :
        /\ Settled(p)
        /\ RowExists(req[p].from) /\ ~RowExists(req[p].to)
        /\ req[p].amount > balance[req[p].from]
        /\ result[p] = E_NotFound
        /\ Settled(q)
        /\ req[q].amount = 0
        /\ ~RowExists(req[q].from) /\ ~RowExists(req[q].to)
        /\ result[q] = E_Amount

----------------------------------------------------------------------------
\* the call of p is over and its connection is idle again
Over(p) == pc[p] = "idle" /\ done[p] > 0

(* C29: between calls a thread keeps nothing of a call: no row lock, no    *)
(* uncommitted row version, no open transaction.  The outcome of every     *)
(* call, the first of a thread as any later one, is the outcome of         *)
(* transfer_funds run alone with the same arguments on the committed       *)
(* table of the moment it decides, and what it commits is what that run    *)
(* commits.  Hence any two finished calls, of the same or of different     *)
(* threads, first or repeated, that had the same arguments and read the    *)
(* same source balance have the same outcome and changed the table by the  *)
(* same amounts.                                                           *)
SelfContained ==
    /\ [](\A p \in Threads :
            /\ pc[p] = "idle" =>
                  /\ HeldBy(p) = {}
                  /\ writes[p] = NoWrites
                  /\ connStatus[p] = "IDLE"
            /\ \A q \in Threads :
                  (Over(p) /\ Over(q) /\ req[p] = req[q]
                   /\ fromBalance[p] = fromBalance[q])
                     => /\ result[p] = result[q]
                        /\ effect[p] = effect[q])
    /\ [][\A p \in Threads :
            /\ CallStep(p) =>
                  IF SeqOutcome(balance, req'[p]) \in {E_Amount, E_Same}
                  THEN result'[p] = SeqOutcome(balance, req'[p]) /\ pc'[p] = "idle"
                  ELSE result'[p] = "none" /\ log'[p] = <<Stmt("BEGIN", 0)>>
            /\ (pc[p] \in InTx /\ pc'[p] = "idle") =>
                  /\ result'[p] = SeqOutcome(balance, req[p])
                  /\ balance' = SeqBalances(balance, req[p])
                  /\ effect'[p] = [a \in Accounts |->
                                      SeqBalances(balance, req[p])[a] - balance[a]]
       ]_vars

\* a thread's second call, with the arguments of the other thread's
\* first call, ended differently because the table had changed: the
\* first moved the unit away that the second then found missing
SelfContainedWitness ==
    \E p, q \in Threads :
        /\ Over(p) /\ Over(q)
        /\ done[p] = 2 /\ done[q] = 1
        /\ req[p] = req[q]
        /\ result[q] = "ok" /\ result[p] = E_Insufficient
        /\ fromBalance[p] # fromBalance[q]


----------------------------------------------------------------------------
(* C30: the earlier transfer_funds takes its row locks in the order the    *)
(* caller gave, from_id then to_id, so two concurrent transfers A->B and   *)
(* B->A can each hold the lock on its own source row and wait for the row  *)
(* the other holds.  Every circular wait is of that shape: both calls run  *)
(* the earlier code, in opposite directions, each past its first UPDATE.   *)
(* The same calls against the fixed transfer_funds never wait in a circle. *)
OpposingWait(p, q) ==
    /\ p # q
    /\ UsesBefore(p) /\ UsesBefore(q)
    /\ req[p].from = req[q].to /\ req[p].to = req[q].from
    /\ req[p].from # req[p].to
    /\ pc[p] = "b_credit" /\ pc[q] = "b_credit"
    /\ lockHolder[req[p].from] = p /\ lockHolder[req[q].from] = q
    /\ BeforeWaitsFor(p, q) /\ BeforeWaitsFor(q, p)
    /\ ~ENABLED BeforeCredit(p) /\ ~ENABLED BeforeCredit(q)

BaselineDeadlock ==
    \A p \in Threads :
        /\ UsesAfter(p) => ~InWaitCycle(p)
        /\ InWaitCycle(p) => \E q \in Threads : OpposingWait(p, q)

\* A->B and B->A of the earlier code, each holding its source row and
\* waiting for the other's
BaselineDeadlockWitness ==
    \E p, q \in Threads :
        /\ OpposingWait(p, q)
        /\ InWaitCycle(p) /\ InWaitCycle(q)
        /\ req[p].from < req[p].to


----------------------------------------------------------------------------
\* p and q debited account a, each after a check against the same balance
\* that could not pay for both
RacedOn(p, q, a) ==
    /\ p # q
    /\ UsesBefore(p) /\ UsesBefore(q)
    /\ req[p].from = a /\ req[q].from = a
    /\ Committed(p) /\ Committed(q)
    /\ fromBalance[p] = fromBalance[q]
    /\ ~Insufficient(fromBalance[p], req[p].amount)
    /\ ~Insufficient(fromBalance[q], req[q].amount)
    /\ Insufficient(fromBalance[p], req[p].amount + req[q].amount)

(* C31: the earlier transfer_funds reads the source balance without        *)
(* locking the row, so two concurrent transfers out of one account can     *)
(* both pass the sufficiency check against the same balance and both       *)
(* commit, leaving it negative; a negative balance arises in no other way. *)
(* With the fixed transfer_funds two transfers out of one account are      *)
(* never both between their check and the end of their transaction, every  *)
(* check is made on the balance the debit is then taken from, and no       *)
(* balance, committed or written, is negative.                             *)
CheckThenActRace ==
    /\ \A a \in Accounts :
          balance[a] < 0 => \E p, q \in Threads : RacedOn(p, q, a)
    /\ \A p \in Threads :
          UsesAfter(p) =>
             /\ \A a \in DOMAIN writes[p] : writes[p][a] >= 0
             /\ \A a \in Accounts : balance[a] >= 0
             /\ pc[p] \in {"debit", "credit"} =>
                   /\ balance[req[p].from] = fromBalance[p]
                   /\ lockHolder[req[p].from] = p
             /\ \A q \in Threads \ {p} :
                   (CheckedAndOpen(p) /\ CheckedAndOpen(q)) =>
                       req[p].from # req[q].from

\* two transfers of the earlier code out of one account, both checked
\* against the seeded balance, both committed, the balance now below zero
CheckThenActRaceWitness ==
    \E p, q \in Threads : \E a \in Accounts :
        /\ RacedOn(p, q, a)
        /\ fromBalance[p] = InitBalance
        /\ balance[a] = InitBalance - req[p].amount - req[q].amount
        /\ balance[a] < 0


----------------------------------------------------------------------------
\* the call of p has ended and its connection is idle again
Ended(p) == pc[p] = "idle" /\ done[p] > 0

\* p's call names a source row and a destination that has no row
MissingDestination(p) ==
    /\ req[p].amount > 0
    /\ RowExists(req[p].from)
    /\ ~RowExists(req[p].to)

\* what a committed call of the earlier code took out of the table
Lost(p) ==
    IF UsesBefore(p) /\ result[p] = "ok" /\ ~RowExists(req[p].to)
    THEN req[p].amount ELSE 0

(* C32: a call of the earlier transfer_funds with a destination that has   *)
(* no row and a source that can pay debits the source, credits nothing,    *)
(* commits and reports no error, so the total of the balances falls by     *)
(* the amount; the total is the seeded total less the amounts of such      *)
(* calls.  The fixed transfer_funds ends the same call with "account not   *)
(* found", nothing changed and the total as seeded.                        *)
MissingDestinationLoss ==
    /\ Total(balance) =
           NumAccounts * InitBalance - SumOver([p \in Threads |-> Lost(p)], Threads)
    /\ \A p \in Threads :
          (Ended(p) /\ MissingDestination(p)) =>
             /\ UsesBefore(p) =>
                   /\ result[p] \in {"ok", E_Insufficient}
                   /\ (result[p] = "ok") <=> ~Insufficient(fromBalance[p], req[p].amount)
                   /\ result[p] = "ok" =>
                         effect[p] = [a \in Accounts |->
                                        IF a = req[p].from THEN 0 - req[p].amount ELSE 0]
             /\ UsesAfter(p) =>
                   /\ result[p] = E_NotFound
                   /\ effect[p] = NoEffect
                   /\ Total(balance) = NumAccounts * InitBalance

\* the earlier code has committed a transfer to a missing account: no
\* error, the source debited, the total one amount short
MissingDestinationLossWitness ==
    \E p \in Threads :
        /\ UsesBefore(p) /\ Ended(p) /\ MissingDestination(p)
        /\ result[p] = "ok"
        /\ balance[req[p].from] = InitBalance - req[p].amount
        /\ Total(balance) = NumAccounts * InitBalance - req[p].amount


----------------------------------------------------------------------------
\* p has locked both rows of its call and its transaction is open
PastLocks(p) == pc[p] \in {"read", "debit", "credit", "exit"}

\* the step reads the balance of from_id for p
BalanceRead(p) == pc[p] = "read" /\ pc'[p] # "read"

(* C33: with other clients deleting account rows at any time, a transfer   *)
(* that has locked both rows holds the lock of from_id and to_id, both     *)
(* rows exist and no deletion of either is under way until its             *)
(* transaction ends; so the balance read finds the row of from_id, and no  *)
(* call ever ends with "from_id not found".  A row deleted earlier is      *)
(* reported as "account not found" by the lock statement.                  *)
FromNotFoundUnreachable ==
    /\ [](\A p \in Threads :
            /\ result[p] # E_FromNotFound
            /\ PastLocks(p) =>
                  /\ RowExists(req[p].from) /\ lockHolder[req[p].from] = p
                  /\ RowExists(req[p].to) /\ lockHolder[req[p].to] = p)
    /\ [][\A p \in Threads :
            /\ BalanceRead(p) =>
                  /\ RowExists(req[p].from)
                  /\ fromBalance'[p] = balance[req[p].from]
                  /\ result'[p] \in {"none", E_Insufficient}
            /\ PastLocks(p) =>
                  /\ RowExists(req[p].from)' /\ RowExists(req[p].to)'
                  /\ ~(ENABLED DeleteRow(req[p].from))
                  /\ ~(ENABLED DeleteRow(req[p].to))]_vars

\* a transfer has read its balance and written its debit while another row
\* has been deleted and a deletion of a row the transfer locked had to wait
FromNotFoundUnreachableWitness ==
    \E p \in Threads :
        /\ pc[p] = "credit"
        /\ fromBalance[p] = InitBalance
        /\ \E a \in Accounts : ~RowExists(a)
        /\ ~ENABLED DeleteRow(req[p].from)

====
